---------------------------- MODULE Spec2Model ----------------------------
(***************************************************************************)
(* BLE-MIDI full-range example of btleplug                                 *)
(* (src/examples/ble_midi_full_range.rs): the session driver `main`, the   *)
(* characteristic selector, the message encoder and the write strategy     *)
(* with its error classification.                                          *)
(*                                                                         *)
(* Error texts are TLA+ strings, searched with a real substring search.    *)
(* The BLE stack (btleplug's platform layer) is the environment: every     *)
(* call the driver makes returns one of the outcomes its signature allows. *)
(***************************************************************************)
EXTENDS Naturals, Sequences, FiniteSets, TLC

VARIABLES
    pc,                  \* position of the driving task (main or a harness)
    result,              \* outcome of main: Running, Ok, Err(e) or Panic
    exit_at,             \* the call whose failure ended main ("" while none)
    adapters_left,       \* adapters the outer loop has not reached yet
    peripherals_left,    \* peripherals the inner loop has not reached yet
    local_name,          \* main's local_name of the current peripheral
    services,            \* advertised services of the current peripheral
    is_connected,        \* main's is_connected (the last observation)
    midi_characteristic, \* Option<Characteristic>: <<>> or <<c>>
    note,                \* loop variable of the send loop
    is_note_on,          \* TRUE: the note-on send of `note`, FALSE: note-off
    data,                \* payload handed to write_with_fallback
    send_result,         \* what the last write_with_fallback call returned
    send_writes,         \* the writes the current/last call issued, with outcomes
    n_without,           \* without-response writes issued in this session
    n_with,              \* with-response writes issued in this session
    attempted,           \* payload of the first write of every send so far
    faults,              \* failed writes in this session
    ops,                 \* BLE calls issued to the current peripheral
    listener,            \* notification task: none, running, finished,
                         \* aborted, dropped
    count,               \* the notification task's counter
    call                 \* unit harness: function applied, argument, return

vars == <<pc, result, exit_at, adapters_left, peripherals_left, local_name,
          services, is_connected, midi_characteristic, note, is_note_on, data,
          send_result, send_writes, n_without, n_with, attempted,
          faults, ops, listener, count, call>>

---------------------------------------------------------------------------
(* Bounds of the model *)

MaxAdapters == 2
MaxPeripherals == 2
MaxChars == 2
MaxFaults == 2
MaxNotifications == 1

---------------------------------------------------------------------------
(* Program constants *)

PERIPHERAL_NAME_MATCH_FILTER == "MIDI"
MIDI_SERVICE_UUID == "03b80e5a-ede8-4b33-a751-6ce34ec4c700"
MIDI_CHARACTERISTIC_UUID == "7772e5db-3868-4112-a1a9-f2669d106bf3"
FIRST_PIANO_NOTE == 21
LAST_PIANO_NOTE == 108
NOTE_ON_VELOCITY == 100

\* UUIDs of the environment that are not the MIDI ones.
OTHER_SERVICE_UUID == "0000180f-0000-1000-8000-00805f9b34fb"
OTHER_CHARACTERISTIC_UUID == "00002a19-0000-1000-8000-00805f9b34fb"

---------------------------------------------------------------------------
(* Strings *)

\* str::contains: pat occurs in text as a contiguous substring.
Contains(text, pat) ==
    \E i \in 1..(Len(text) + 1 - Len(pat)) :
        SubSeq(text, i, i + Len(pat) - 1) = pat

---------------------------------------------------------------------------
(* btleplug::Error, Result and Option *)

\* An error is its variant and the text its Display prints.
Error(kind, text) == [kind |-> kind, text |-> text]
NoError == Error("None", "")

Ok == [tag |-> "Ok", err |-> NoError]
Err(e) == [tag |-> "Err", err |-> e]
Pending == [tag |-> "Pending", err |-> NoError]

to_string(err) == err.text

\* The format string of augment_write_error, up to its placeholder (the two
\* backquotes around the bluetoothctl command are written as apostrophes).
GUIDANCE ==
    "Operation not authorized while writing to BLE MIDI characteristic. "
    \o "Many devices require pairing/bonding before they accept MIDI writes. "
    \o "Pair the device (for example via 'bluetoothctl pair/trust/connect') and retry. "
    \o "Original error: "

is_not_authorized_error(err) ==
    LET text == to_string(err) IN
    Contains(text, "Not Authorized") \/ Contains(text, "Not authorized")

augment_write_error(err) ==
    IF is_not_authorized_error(err)
    THEN Error("Other", GUIDANCE \o to_string(err))
    ELSE err

should_try_with_response_auth_only(err, supports_with_response) ==
    is_not_authorized_error(err)

should_try_with_response_always(err, supports_with_response) == TRUE

should_try_with_response(err, supports_with_response) ==
    supports_with_response \/ is_not_authorized_error(err)

\* Result::map_err(augment_write_error)
map_err_augment(r) == IF r.tag = "Err" THEN Err(augment_write_error(r.err)) ELSE r

---------------------------------------------------------------------------
(* Characteristics *)

CharPropFlags == {"WRITE_WITHOUT_RESPONSE", "WRITE", "NOTIFY"}

Characteristic(uuid, properties) == [uuid |-> uuid, properties |-> properties]

Characteristics ==
    { Characteristic(u, p) :
        u \in {OTHER_CHARACTERISTIC_UUID, MIDI_CHARACTERISTIC_UUID},
        p \in SUBSET CharPropFlags }

\* Peripheral::characteristics() hands out a BTreeSet ordered by uuid first:
\* entries of one uuid are adjacent (they differ in their service); the
\* order among them is that of the services.
UuidRank(u) == IF u = OTHER_CHARACTERISTIC_UUID THEN 0 ELSE 1

SeqsUpTo(S, n) == UNION { [1..k -> S] : k \in 0..n }

CharLists ==
    { l \in SeqsUpTo(Characteristics, MaxChars) :
        \A i \in 1..Len(l), j \in 1..Len(l) :
            i < j => UuidRank(l[i].uuid) <= UuidRank(l[j].uuid) }

\* The closure of `.find(..)`, line 165.
HasMidiUuid(c) == c.uuid = MIDI_CHARACTERISTIC_UUID

\* The closure of `.filter(..)`, lines 166-170.
HasMidiCapabilities_no_notify(c) ==
    "WRITE" \in c.properties \/ "WRITE_WITHOUT_RESPONSE" \in c.properties

HasMidiCapabilities(c) ==
    /\ "NOTIFY" \in c.properties
    /\ \/ "WRITE" \in c.properties
       \/ "WRITE_WITHOUT_RESPONSE" \in c.properties

\* Iterator::find with the uuid closure: the first element, as an Option.
FindByUuid(chars) ==
    LET hits == { i \in 1..Len(chars) : HasMidiUuid(chars[i]) } IN
    IF hits = {} THEN <<>>
    ELSE <<chars[CHOOSE i \in hits : \A j \in hits : i <= j]>>

\* The capability filter of lines 166-170 left out.
FilterCapabilities_unfiltered(opt) == opt

\* Option::filter with the capability closure.
FilterCapabilities(opt) ==
    IF opt # <<>> /\ HasMidiCapabilities(opt[1]) THEN opt ELSE <<>>

find_midi_characteristic(chars) == FilterCapabilities(FindByUuid(chars))

---------------------------------------------------------------------------
(* Message encoder *)

\* The two status bytes exchanged.
ble_midi_message_swapped(on, n, velocity) ==
    LET status == IF on THEN 128 ELSE 144 IN
    <<128, status, n, velocity>>

ble_midi_message(on, n, velocity) ==
    LET status == IF on THEN 144 ELSE 128 IN
    <<128, status, n, velocity>>

---------------------------------------------------------------------------
(* Write strategy *)

WriteRecord(write_type, payload, outcome) ==
    [write_type |-> write_type, data |-> payload, outcome |-> outcome]

supports_without_response(c) == "WRITE_WITHOUT_RESPONSE" \in c.properties
supports_with_response(c) == "WRITE" \in c.properties

is_writable_always(c) == TRUE

\* The condition of line 207.
is_writable(c) == supports_with_response(c) \/ supports_without_response(c)

NotSupported == Error("NotSupported", "BLE MIDI characteristic is not writable")

\* Lines 207-216, given the outcome r the stack gives the write (if one is
\* issued): the writes issued and what the call returns.
WwfTail(c, payload, r) ==
    IF is_writable(c)
    THEN [writes |-> <<WriteRecord("WithResponse", payload, r)>>,
          next |-> "return", ret |-> map_err_augment(r)]
    ELSE [writes |-> <<>>, next |-> "return", ret |-> Err(NotSupported)]

\* Lines 183-205 (then 207-216 when no without-response write is made),
\* given the outcome r the stack gives the write issued.
WwfEntry(c, payload, r) ==
    IF supports_without_response(c)
    THEN LET w == <<WriteRecord("WithoutResponse", payload, r)>> IN
         IF r.tag = "Ok"
         THEN [writes |-> w, next |-> "return", ret |-> Ok]
         ELSE IF should_try_with_response(r.err, supports_with_response(c))
              THEN [writes |-> w, next |-> "fallback", ret |-> Pending]
              ELSE [writes |-> w, next |-> "return",
                    ret |-> Err(augment_write_error(r.err))]
    ELSE WwfTail(c, payload, r)

---------------------------------------------------------------------------
(* The environment's answers *)

WriteErrors ==
    { Error("Other", t) : t \in {"Not Authorized", "NOT AUTHORIZED", "Timed out"} }

WriteOutcomes == {Ok} \cup { Err(e) : e \in WriteErrors }

ErrorCores ==
    {"Not Authorized", "Not authorized", "not authorized", "NOT AUTHORIZED",
     "NotAuthorized", "Timed out", "Not connected"}

SampleErrors ==
    { Error(k, p \o c \o s) :
        k \in {"Other", "RuntimeError"}, p \in {"", "ATT error: "},
        c \in ErrorCores, s \in {"", " (0x08)"} }

SamplePayloads ==
    { ble_midi_message(TRUE, FIRST_PIANO_NOTE, NOTE_ON_VELOCITY),
      ble_midi_message(FALSE, LAST_PIANO_NOTE, 0) }

---------------------------------------------------------------------------
(* Initial values *)

Running == [tag |-> "Running", err |-> NoError]
Panic == [tag |-> "Panic", err |-> NoError]

Call(fn, arg) == [fn |-> fn, arg |-> arg, ret |-> <<>>, done |-> FALSE]
NoCall == Call("main", <<>>)

IdleMain ==
    /\ result = Running
    /\ exit_at = ""
    /\ adapters_left = 0
    /\ peripherals_left = 0
    /\ local_name = ""
    /\ services = <<>>
    /\ is_connected = FALSE
    /\ note = FIRST_PIANO_NOTE
    /\ is_note_on = TRUE
    /\ n_without = 0
    /\ n_with = 0
    /\ attempted = <<>>
    /\ faults = 0
    /\ ops = <<>>
    /\ listener = "none"
    /\ count = 0

IdleSend ==
    /\ midi_characteristic = <<>>
    /\ data = <<>>
    /\ send_result = Pending
    /\ send_writes = <<>>

loopVars == <<adapters_left, peripherals_left>>
periphVars == <<local_name, services, is_connected>>
noteVars == <<note, is_note_on>>
histVars == <<n_without, n_with, attempted, faults>>
taskVars == <<listener, count>>
mainVars == <<result, exit_at, loopVars, periphVars, noteVars, histVars, ops,
              taskVars>>

sendVars == <<midi_characteristic, data, send_result, send_writes>>

---------------------------------------------------------------------------
(* find_midi_characteristic applied to every list of characteristics *)

FindInit ==
    /\ pc = "unit"
    /\ call \in { Call("find_midi_characteristic", l) : l \in CharLists }
    /\ IdleMain /\ IdleSend

CallFind ==
    /\ call.fn = "find_midi_characteristic" /\ ~call.done
    /\ call' = [call EXCEPT !.ret = find_midi_characteristic(call.arg),
                            !.done = TRUE]
    /\ UNCHANGED <<pc, mainVars, sendVars>>

SpecFind == FindInit /\ [][CallFind]_vars

---------------------------------------------------------------------------
(* augment_write_error applied to sample errors *)

AugmentInit ==
    /\ pc = "unit"
    /\ call \in { Call("augment_write_error", e) : e \in SampleErrors }
    /\ IdleMain /\ IdleSend

CallAugment ==
    /\ call.fn = "augment_write_error" /\ ~call.done
    /\ call' = [call EXCEPT !.ret = augment_write_error(call.arg),
                            !.done = TRUE]
    /\ UNCHANGED <<pc, mainVars, sendVars>>

SpecAugment == AugmentInit /\ [][CallAugment]_vars

---------------------------------------------------------------------------
(* ble_midi_message applied to every flag, note and velocity *)

\* The values of a u8.
U8 == 0..255

EncodeInit ==
    /\ pc = "unit"
    /\ call \in { Call("ble_midi_message", <<on, n, v>>) :
                    on \in BOOLEAN, n \in U8, v \in U8 }
    /\ IdleMain /\ IdleSend

CallEncode ==
    /\ call.fn = "ble_midi_message" /\ ~call.done
    /\ call' = [call EXCEPT !.ret = ble_midi_message(call.arg[1], call.arg[2],
                                                     call.arg[3]),
                            !.done = TRUE]
    /\ UNCHANGED <<pc, mainVars, sendVars>>

SpecEncode == EncodeInit /\ [][CallEncode]_vars

---------------------------------------------------------------------------
(* write_with_fallback called once, on any characteristic *)

WriteInit ==
    /\ pc = "wwf_call"
    /\ call = Call("write_with_fallback", <<>>)
    /\ IdleMain
    /\ midi_characteristic \in { <<c>> : c \in Characteristics }
    /\ data \in SamplePayloads
    /\ send_result = Pending
    /\ send_writes = <<>>

WwfCall ==
    /\ pc = "wwf_call"
    /\ \E r \in WriteOutcomes :
        LET s == WwfEntry(midi_characteristic[1], data, r) IN
        /\ send_writes' = s.writes
        /\ send_result' = s.ret
        /\ pc' = IF s.next = "fallback" THEN "wwf_fallback" ELSE "wwf_returned"
    /\ UNCHANGED <<mainVars, midi_characteristic, data, call>>

WwfFallback ==
    /\ pc = "wwf_fallback"
    /\ \E r \in WriteOutcomes :
        LET s == WwfTail(midi_characteristic[1], data, r) IN
        /\ send_writes' = send_writes \o s.writes
        /\ send_result' = s.ret
        /\ pc' = "wwf_returned"
    /\ UNCHANGED <<mainVars, midi_characteristic, data, call>>

SpecWrite == WriteInit /\ [][WwfCall \/ WwfFallback]_vars

---------------------------------------------------------------------------
(* The session driver: main *)

\* What the stack may answer to the calls that are not writes.
OpError(op) == Error("Other", op \o " failed")

PeripheralNames == {"Example MIDI Device", "midi keyboard", "Speaker"}
ServiceLists == { {}, {MIDI_SERVICE_UUID}, {OTHER_SERVICE_UUID} }

\* Option<PeripheralProperties>: <<>> or <<p>>; p.local_name is an Option too.
PropertiesOptions ==
    {<<>>} \cup
    { <<[local_name |-> n, services |-> sv]>> :
        n \in {<<>>} \cup { <<x>> : x \in PeripheralNames },
        sv \in ServiceLists }

\* Lines 48-51.
LocalNameOf(maybe_properties) ==
    IF maybe_properties # <<>> /\ maybe_properties[1].local_name # <<>>
    THEN maybe_properties[1].local_name[1]
    ELSE "(peripheral name unknown)"

\* The name filter left out.
NameMatches_any(name) == TRUE

\* Line 58: the peripheral passes the name filter.
NameMatches(name) == Contains(name, PERIPHERAL_NAME_MATCH_FILTER)

\* Lines 63-73: the peripheral is skipped for the services it advertises.
LacksMidiService(maybe_properties) ==
    /\ maybe_properties # <<>>
    /\ maybe_properties[1].services # {}
    /\ MIDI_SERVICE_UUID \notin maybe_properties[1].services

\* The stack fails a write only while the session's fault budget lasts.
WriteOutcomesLeft == IF faults < MaxFaults THEN WriteOutcomes ELSE {Ok}

\* Where the loops go after the current peripheral, with pl peripherals and
\* al adapters left: the next peripheral, the next adapter, or line 158.
NextPc(pl, al) ==
    IF pl > 0 THEN "evaluate" ELSE IF al > 0 THEN "scan" ELSE "done"

\* `continue`, or the end of the loop body.
Continue(pl) ==
    /\ pc' = NextPc(pl, adapters_left)
    /\ result' = IF NextPc(pl, adapters_left) = "done" THEN Ok ELSE result
    /\ exit_at' = exit_at

\* `?` on an Err, or a panic: main ends, and the runtime that #[tokio::main]
\* built drops the notification task with it.
Exit(r, at) ==
    /\ pc' = "done"
    /\ result' = r
    /\ exit_at' = at
    /\ listener' = IF listener = "running" THEN "dropped" ELSE listener
    /\ count' = 0

Proceed(next) ==
    /\ pc' = next
    /\ UNCHANGED <<result, exit_at>>

Init ==
    /\ pc = "start"
    /\ call = NoCall
    /\ IdleMain /\ IdleSend

\* Lines 27-33: the manager and its adapters.
GetAdapters ==
    /\ pc = "start"
    /\ \/ \E out \in {"Manager::new", "adapters"} :
            /\ Exit(Err(OpError(out)), out)
            /\ UNCHANGED adapters_left
       \/ \E n \in 0..MaxAdapters :
            /\ adapters_left' = n
            /\ pc' = IF n = 0 THEN "done" ELSE "scan"
            /\ result' = IF n = 0 THEN Ok ELSE result
            /\ UNCHANGED <<exit_at, taskVars>>
    /\ UNCHANGED <<peripherals_left, periphVars, noteVars, histVars, ops,
                   sendVars, call>>

\* Lines 33-45: the next adapter is scanned and its peripherals listed.
ScanAdapter ==
    /\ pc = "scan"
    /\ adapters_left' = adapters_left - 1
    /\ \/ /\ Exit(Panic, "start_scan")
          /\ UNCHANGED peripherals_left
       \/ /\ Exit(Err(OpError("peripherals")), "peripherals")
          /\ UNCHANGED peripherals_left
       \/ \E n \in 0..MaxPeripherals :
            /\ peripherals_left' = n
            /\ pc' = NextPc(n, adapters_left - 1)
            /\ result' = IF NextPc(n, adapters_left - 1) = "done"
                         THEN Ok ELSE result
            /\ UNCHANGED <<exit_at, taskVars>>
    /\ UNCHANGED <<periphVars, noteVars, histVars, ops, sendVars, call>>

\* Lines 45-77: the next peripheral is looked at and filtered.
EvaluatePeripheral ==
    /\ pc = "evaluate"
    /\ peripherals_left' = peripherals_left - 1
    /\ UNCHANGED <<adapters_left, call>>
    /\ midi_characteristic' = <<>> /\ data' = <<>>
    /\ send_result' = Pending /\ send_writes' = <<>>
    /\ n_without' = 0 /\ n_with' = 0 /\ attempted' = <<>> /\ faults' = 0
    /\ note' = FIRST_PIANO_NOTE /\ is_note_on' = TRUE
    /\ \/ /\ Exit(Err(OpError("properties")), "properties")
          /\ ops' = <<"properties">>
          /\ local_name' = "" /\ services' = <<>> /\ is_connected' = FALSE
       \/ /\ Exit(Err(OpError("is_connected")), "is_connected")
          /\ ops' = <<"properties", "is_connected">>
          /\ local_name' = "" /\ services' = <<>> /\ is_connected' = FALSE
       \/ \E props \in PropertiesOptions, conn \in BOOLEAN :
            /\ ops' = <<"properties", "is_connected">>
            /\ local_name' = LocalNameOf(props)
            /\ services' = IF props = <<>> THEN <<>> ELSE <<props[1].services>>
            /\ is_connected' = conn
            /\ UNCHANGED taskVars
            /\ IF ~NameMatches(LocalNameOf(props)) \/ LacksMidiService(props)
               THEN Continue(peripherals_left - 1)
               ELSE Proceed(IF conn THEN "check_connected" ELSE "connect")

\* Lines 77-82.
Connect ==
    /\ pc = "connect"
    /\ ops' = Append(ops, "connect")
    /\ \/ Proceed("check_connected")
       \/ Continue(peripherals_left)
    /\ UNCHANGED <<loopVars, periphVars, noteVars, histVars, taskVars,
                   sendVars, call>>

\* Lines 84-88.
CheckConnected ==
    /\ pc = "check_connected"
    /\ ops' = Append(ops, "is_connected")
    /\ \/ /\ Exit(Err(OpError("is_connected")), "is_connected")
          /\ UNCHANGED is_connected
       \/ \E conn \in BOOLEAN :
            /\ is_connected' = conn
            /\ UNCHANGED taskVars
            /\ IF conn THEN Proceed("discover") ELSE Continue(peripherals_left)
    /\ UNCHANGED <<loopVars, local_name, services, noteVars, histVars,
                   sendVars, call>>

\* Lines 90-99: service discovery, then the characteristic lookup.
Discover ==
    /\ pc = "discover"
    /\ ops' = Append(ops, "discover_services")
    /\ \/ /\ Exit(Err(OpError("discover_services")), "discover_services")
          /\ UNCHANGED midi_characteristic
       \/ \E chars \in CharLists :
            /\ midi_characteristic' = find_midi_characteristic(chars)
            /\ Proceed(IF find_midi_characteristic(chars) = <<>>
                       THEN "disconnect_missing" ELSE "subscribe")
            /\ UNCHANGED taskVars
    /\ UNCHANGED <<loopVars, periphVars, noteVars, histVars, data, send_result,
                   send_writes, call>>

\* The peripheral is left without the disconnect of line 100.
DisconnectMissing_omitted ==
    /\ pc = "disconnect_missing"
    /\ Continue(peripherals_left)
    /\ UNCHANGED <<ops, taskVars, loopVars, periphVars, noteVars, histVars,
                   sendVars, call>>

\* Lines 100-101: no MIDI characteristic, the peripheral is left.
DisconnectMissing ==
    /\ pc = "disconnect_missing"
    /\ ops' = Append(ops, "disconnect")
    /\ \/ Exit(Err(OpError("disconnect")), "disconnect")
       \/ /\ Continue(peripherals_left)
          /\ UNCHANGED taskVars
    /\ UNCHANGED <<loopVars, periphVars, noteVars, histVars, sendVars, call>>

\* Line 113.
Subscribe ==
    /\ pc = "subscribe"
    /\ ops' = Append(ops, "subscribe")
    /\ \/ Exit(Err(OpError("subscribe")), "subscribe")
       \/ /\ Proceed("notifications")
          /\ UNCHANGED taskVars
    /\ UNCHANGED <<loopVars, periphVars, noteVars, histVars, sendVars, call>>

\* Lines 115-132: the notification stream and the task that reads it.
OpenNotifications ==
    /\ pc = "notifications"
    /\ \/ /\ Exit(Err(OpError("notifications")), "notifications")
          /\ ops' = Append(ops, "notifications")
          /\ UNCHANGED noteVars
       \/ /\ ops' = ops \o <<"notifications", "spawn">>
          /\ listener' = "running" /\ count' = 0
          /\ note' = FIRST_PIANO_NOTE /\ is_note_on' = TRUE
          /\ Proceed(IF FIRST_PIANO_NOTE <= LAST_PIANO_NOTE THEN "send" ELSE "drain")
    /\ UNCHANGED <<loopVars, periphVars, histVars, sendVars, call>>

\* `FIRST..LAST` for `FIRST..=LAST`: the last note is left out.
AfterSend_exclusive ==
    IF is_note_on
    THEN [pc |-> "send", note |-> note, is_note_on |-> FALSE]
    ELSE IF note + 1 < LAST_PIANO_NOTE
         THEN [pc |-> "send", note |-> note + 1, is_note_on |-> TRUE]
         ELSE [pc |-> "drain", note |-> note, is_note_on |-> is_note_on]

\* The note-off of every note is left out.
AfterSend_no_off ==
    IF note < LAST_PIANO_NOTE
    THEN [pc |-> "send", note |-> note + 1, is_note_on |-> TRUE]
    ELSE [pc |-> "drain", note |-> note, is_note_on |-> is_note_on]

\* Where the send loop stands after a send that returned Ok and the sleep
\* that follows it (lines 132-142).
AfterSend ==
    IF is_note_on
    THEN [pc |-> "send", note |-> note, is_note_on |-> FALSE]
    ELSE IF note < LAST_PIANO_NOTE
         THEN [pc |-> "send", note |-> note + 1, is_note_on |-> TRUE]
         ELSE [pc |-> "drain", note |-> note, is_note_on |-> is_note_on]

\* The payload of the send the loop stands at (lines 133 and 138).
CurrentMessage ==
    ble_midi_message(is_note_on, note, IF is_note_on THEN NOTE_ON_VELOCITY ELSE 0)

CountOf(writes, write_type) ==
    Cardinality({ i \in 1..Len(writes) : writes[i].write_type = write_type })

FailuresOf(writes) ==
    Cardinality({ i \in 1..Len(writes) : writes[i].outcome.tag = "Err" })

\* What a step s of write_with_fallback leaves in main: the call goes on
\* with its fallback, returns Ok (main sleeps and loops) or returns an Err
\* (main's `?` returns it).
SendStep(s) ==
    /\ n_without' = n_without + CountOf(s.writes, "WithoutResponse")
    /\ n_with' = n_with + CountOf(s.writes, "WithResponse")
    /\ faults' = faults + FailuresOf(s.writes)
    /\ send_result' = s.ret
    /\ CASE s.next = "fallback" ->
                Proceed("fallback") /\ UNCHANGED <<noteVars, taskVars>>
         [] s.next = "return" /\ s.ret.tag = "Ok" ->
                /\ Proceed(AfterSend.pc)
                /\ note' = AfterSend.note
                /\ is_note_on' = AfterSend.is_note_on
                /\ UNCHANGED taskVars
         [] OTHER ->
                Exit(s.ret, "write") /\ UNCHANGED noteVars

\* The send waits for the notification task to be over.
SendNote_after_listener ==
    /\ pc = "send"
    /\ listener # "running"
    /\ data' = CurrentMessage
    /\ \E r \in WriteOutcomesLeft :
        LET s == WwfEntry(midi_characteristic[1], CurrentMessage, r) IN
        /\ send_writes' = s.writes
        /\ attempted' = IF s.writes # <<>> THEN Append(attempted, CurrentMessage)
                        ELSE attempted
        /\ SendStep(s)
    /\ UNCHANGED <<loopVars, periphVars, midi_characteristic, ops, call>>

\* Lines 133-136 and 138-141 with the first write of write_with_fallback.
SendNote ==
    /\ pc = "send"
    /\ data' = CurrentMessage
    /\ \E r \in WriteOutcomesLeft :
        LET s == WwfEntry(midi_characteristic[1], CurrentMessage, r) IN
        /\ send_writes' = s.writes
        /\ attempted' = IF s.writes # <<>> THEN Append(attempted, CurrentMessage)
                        ELSE attempted
        /\ SendStep(s)
    /\ UNCHANGED <<loopVars, periphVars, midi_characteristic, ops, call>>

\* Lines 207-212 after a failed write without response.
SendFallback ==
    /\ pc = "fallback"
    /\ \E r \in WriteOutcomesLeft :
        LET s == WwfTail(midi_characteristic[1], data, r) IN
        /\ send_writes' = send_writes \o s.writes
        /\ SendStep(s)
    /\ UNCHANGED <<loopVars, periphVars, midi_characteristic, data, attempted,
                   ops, call>>

\* Lines 144-145: the drain delay.
Drain ==
    /\ pc = "drain"
    /\ ops' = Append(ops, "drain")
    /\ Proceed("unsubscribe")
    /\ UNCHANGED <<loopVars, periphVars, noteVars, histVars, taskVars,
                   sendVars, call>>

\* Line 148.
Unsubscribe ==
    /\ pc = "unsubscribe"
    /\ ops' = Append(ops, "unsubscribe")
    /\ \/ Exit(Err(OpError("unsubscribe")), "unsubscribe")
       \/ /\ Proceed("disconnect")
          /\ UNCHANGED taskVars
    /\ UNCHANGED <<loopVars, periphVars, noteVars, histVars, sendVars, call>>

\* The notification task is aborted before the disconnect.
Disconnect_abort_first ==
    /\ pc = "disconnect"
    /\ \/ /\ Exit(Err(OpError("disconnect")), "disconnect")
          /\ ops' = ops \o <<"abort", "disconnect">>
       \/ /\ ops' = ops \o <<"abort", "disconnect">>
          /\ listener' = IF listener = "running" THEN "aborted" ELSE listener
          /\ count' = 0
          /\ Continue(peripherals_left)
    /\ UNCHANGED <<loopVars, periphVars, noteVars, histVars, sendVars, call>>

\* The abort of line 153 left out: the task is left running.
Disconnect_no_abort ==
    /\ pc = "disconnect"
    /\ \/ /\ Exit(Err(OpError("disconnect")), "disconnect")
          /\ ops' = Append(ops, "disconnect")
       \/ /\ ops' = Append(ops, "disconnect")
          /\ UNCHANGED taskVars
          /\ Continue(peripherals_left)
    /\ UNCHANGED <<loopVars, periphVars, noteVars, histVars, sendVars, call>>

\* Lines 151-153: disconnect, then the notification task is aborted.
Disconnect ==
    /\ pc = "disconnect"
    /\ \/ /\ Exit(Err(OpError("disconnect")), "disconnect")
          /\ ops' = Append(ops, "disconnect")
       \/ /\ ops' = ops \o <<"disconnect", "abort">>
          /\ listener' = IF listener = "running" THEN "aborted" ELSE listener
          /\ count' = 0
          /\ Continue(peripherals_left)
    /\ UNCHANGED <<loopVars, periphVars, noteVars, histVars, sendVars, call>>

\* Lines 117-126: the notification task takes one notification. The stream
\* may deliver without end; count is only printed, and is kept here modulo
\* MaxNotifications + 1.
ListenerReceive ==
    /\ listener = "running"
    /\ pc # "done"
    /\ count' = (count + 1) % (MaxNotifications + 1)
    /\ UNCHANGED <<pc, result, exit_at, loopVars, periphVars, noteVars,
                   histVars, ops, listener, sendVars, call>>

\* Line 119: the stream ends (next() gives None) and the task returns.
ListenerStreamEnd ==
    /\ listener = "running"
    /\ pc # "done"
    /\ listener' = "finished"
    /\ count' = 0
    /\ UNCHANGED <<pc, result, exit_at, loopVars, periphVars, noteVars,
                   histVars, ops, sendVars, call>>

Next ==
    \/ GetAdapters
    \/ ScanAdapter
    \/ EvaluatePeripheral
    \/ Connect
    \/ CheckConnected
    \/ Discover
    \/ DisconnectMissing
    \/ Subscribe
    \/ OpenNotifications
    \/ SendNote
    \/ SendFallback
    \/ Drain
    \/ Unsubscribe
    \/ Disconnect
    \/ ListenerReceive
    \/ ListenerStreamEnd

Spec == Init /\ [][Next]_vars

\* The steps of main. main and the notification task are two tasks of the
\* runtime #[tokio::main] builds; the notification task suspends at every
\* `.next().await`, and a BLE call or sleep main awaits is taken to return:
\* whenever main has a step to take, it takes it in the end.
DriverStep ==
    \/ GetAdapters
    \/ ScanAdapter
    \/ EvaluatePeripheral
    \/ Connect
    \/ CheckConnected
    \/ Discover
    \/ DisconnectMissing
    \/ Subscribe
    \/ OpenNotifications
    \/ SendNote
    \/ SendFallback
    \/ Drain
    \/ Unsubscribe
    \/ Disconnect

SpecFair == Init /\ [][Next]_vars /\ WF_vars(DriverStep)

---------------------------------------------------------------------------
(* Vocabulary of the properties *)

UpperCase == "ABCDEFGHIJKLMNOPQRSTUVWXYZ"
LowerCase == "abcdefghijklmnopqrstuvwxyz"

LowerChar(ch) ==
    LET hits == { i \in 1..Len(UpperCase) : SubSeq(UpperCase, i, i) = ch } IN
    IF hits = {} THEN ch
    ELSE LET k == CHOOSE i \in hits : TRUE IN SubSeq(LowerCase, k, k)

RECURSIVE ToLower(_)
ToLower(text) ==
    IF Len(text) = 0 THEN ""
    ELSE LowerChar(SubSeq(text, 1, 1)) \o ToLower(SubSeq(text, 2, Len(text)))

\* The text says "not authorized", in whatever letter case.
SaysNotAuthorized(err) == Contains(ToLower(err.text), "not authorized")

\* The error is the guidance wrapped around the message `text`.
IsGuidanceAround(err, text) ==
    /\ err.kind = "Other"
    /\ Len(err.text) > Len(text)
    /\ Contains(err.text, "Pair the device")
    /\ Contains(err.text, text)

IsPrefix(s, t) ==
    /\ Len(s) <= Len(t)
    /\ \A i \in 1..Len(s) : s[i] = t[i]

NoteOn(n) == <<128, 144, n, 100>>
NoteOff(n) == <<128, 128, n, 0>>

\* on(21), off(21), on(22), off(22), ..., on(108), off(108)
FullRange ==
    [ i \in 1..176 |->
        IF i % 2 = 1 THEN NoteOn(21 + (i - 1) \div 2)
        ELSE NoteOff(21 + (i - 2) \div 2) ]

WriteTypes(writes) == [ i \in 1..Len(writes) |-> writes[i].write_type ]

\* The characteristic is one the BLE MIDI session can use.
Qualifies(c) ==
    /\ c.uuid = "7772e5db-3868-4112-a1a9-f2669d106bf3"
    /\ "NOTIFY" \in c.properties
    /\ ("WRITE" \in c.properties \/ "WRITE_WITHOUT_RESPONSE" \in c.properties)

\* The call op was issued to the current peripheral; how many times.
Has(op) == \E i \in 1..Len(ops) : ops[i] = op
Times(op) == Cardinality({ i \in 1..Len(ops) : ops[i] = op })

InWriteCall == call.fn = "write_with_fallback" /\ midi_characteristic # <<>>
FirstWriteFailed == Len(send_writes) >= 1 /\ send_writes[1].outcome.tag = "Err"

---------------------------------------------------------------------------
(* Properties of write_with_fallback, under SpecWrite *)

\* C1: on a characteristic with both WRITE and WRITE_WITHOUT_RESPONSE, a
\* failed write without response (whatever the error) is followed by exactly
\* one write with response of the same payload, and the call returns what
\* that second write gave: Ok when it succeeded, its error otherwise.
C1_FallbackWhenBothModes ==
    ( /\ InWriteCall
      /\ {"WRITE", "WRITE_WITHOUT_RESPONSE"} \subseteq midi_characteristic[1].properties
      /\ FirstWriteFailed )
    => /\ pc \in {"wwf_fallback", "wwf_returned"}
       /\ pc = "wwf_fallback" => WriteTypes(send_writes) = <<"WithoutResponse">>
       /\ pc = "wwf_returned" =>
            /\ WriteTypes(send_writes) = <<"WithoutResponse", "WithResponse">>
            /\ send_writes[2].data = send_writes[1].data
            /\ send_writes[2].data = data
            /\ send_result.tag = send_writes[2].outcome.tag
            /\ send_result.tag = "Err" =>
                 Contains(send_result.err.text, send_writes[2].outcome.err.text)

C1_Witness ==
    /\ InWriteCall
    /\ midi_characteristic[1].properties = {"NOTIFY", "WRITE", "WRITE_WITHOUT_RESPONSE"}
    /\ pc = "wwf_returned"
    /\ FirstWriteFailed
    /\ send_writes[1].outcome.err.text = "Timed out"
    /\ Len(send_writes) = 2
    /\ send_result = Ok

\* C2: on a characteristic with WRITE_WITHOUT_RESPONSE and without WRITE, a
\* write without response that fails with an error that is no authorization
\* error ends the call: one write was issued, none with response, and the
\* error is returned as it was.
C2_NoFallbackWithoutWrite ==
    ( /\ InWriteCall
      /\ "WRITE_WITHOUT_RESPONSE" \in midi_characteristic[1].properties
      /\ "WRITE" \notin midi_characteristic[1].properties
      /\ FirstWriteFailed
      /\ ~SaysNotAuthorized(send_writes[1].outcome.err) )
    => /\ pc = "wwf_returned"
       /\ WriteTypes(send_writes) = <<"WithoutResponse">>
       /\ send_result = Err(send_writes[1].outcome.err)

C2_Witness ==
    /\ InWriteCall
    /\ midi_characteristic[1].properties = {"NOTIFY", "WRITE_WITHOUT_RESPONSE"}
    /\ pc = "wwf_returned"
    /\ FirstWriteFailed
    /\ send_result = Err(Error("Other", "Timed out"))

\* C3: on a characteristic with neither WRITE nor WRITE_WITHOUT_RESPONSE the
\* call issues no write at all and returns a NotSupported error, whatever
\* the payload.
C3_NotSupportedWithoutWrites ==
    ( /\ InWriteCall
      /\ "WRITE" \notin midi_characteristic[1].properties
      /\ "WRITE_WITHOUT_RESPONSE" \notin midi_characteristic[1].properties )
    => /\ send_writes = <<>>
       /\ pc \in {"wwf_call", "wwf_returned"}
       /\ pc = "wwf_returned" =>
            send_result.tag = "Err" /\ send_result.err.kind = "NotSupported"

C3_Witness ==
    /\ InWriteCall
    /\ midi_characteristic[1].properties = {"NOTIFY"}
    /\ pc = "wwf_returned"
    /\ data = NoteOff(108)
    /\ send_result.tag = "Err" /\ send_result.err.kind = "NotSupported"
    /\ send_writes = <<>>

\* C11: when the call returns an error and one of its writes failed with an
\* authorization error, the error returned is the guidance wrapped around
\* the text of that authorization error. The authorization errors taken here
\* are only those the program itself recognises (is_not_authorized_error),
\* the narrowest reading of the class.
C11_AuthorizationNeverSwallowed ==
    ( /\ InWriteCall
      /\ pc = "wwf_returned"
      /\ send_result.tag = "Err" )
    => \A i \in 1..Len(send_writes) :
          ( /\ send_writes[i].outcome.tag = "Err"
            /\ is_not_authorized_error(send_writes[i].outcome.err) )
          => IsGuidanceAround(send_result.err, send_writes[i].outcome.err.text)

\* C13: on a characteristic with WRITE_WITHOUT_RESPONSE and without WRITE, a
\* write without response that fails with an authorization error (its text
\* says "not authorized", in any letter case) is followed by exactly one
\* write with response, and the call returns what that write gave: Ok, or
\* its error, inside the guidance when it is an authorization error itself
\* and as it was otherwise.
C13_AuthorizationFailureFallsBack ==
    ( /\ InWriteCall
      /\ "WRITE_WITHOUT_RESPONSE" \in midi_characteristic[1].properties
      /\ "WRITE" \notin midi_characteristic[1].properties
      /\ FirstWriteFailed
      /\ SaysNotAuthorized(send_writes[1].outcome.err) )
    => /\ pc \in {"wwf_fallback", "wwf_returned"}
       /\ pc = "wwf_fallback" => WriteTypes(send_writes) = <<"WithoutResponse">>
       /\ pc = "wwf_returned" =>
            /\ WriteTypes(send_writes) = <<"WithoutResponse", "WithResponse">>
            /\ send_writes[2].data = send_writes[1].data
            /\ send_result.tag = send_writes[2].outcome.tag
            /\ send_result.tag = "Err" =>
                 IF SaysNotAuthorized(send_writes[2].outcome.err)
                 THEN IsGuidanceAround(send_result.err,
                                       send_writes[2].outcome.err.text)
                 ELSE send_result = send_writes[2].outcome

---------------------------------------------------------------------------
(* Properties of ble_midi_message, under SpecEncode *)

\* C12: for every note n of 21..108 and velocity v of 0..127,
\* ble_midi_message(true, n, v) is the four bytes 0x80, 0x90, n, v and
\* ble_midi_message(false, n, v) the four bytes 0x80, 0x80, n, v: the status
\* byte follows from the flag alone.
C12_EncodingOfNotes ==
    ( /\ call.fn = "ble_midi_message" /\ call.done
      /\ call.arg[2] \in 21..108
      /\ call.arg[3] \in 0..127 )
    => /\ Len(call.ret) = 4
       /\ call.arg[1] => call.ret = <<128, 144, call.arg[2], call.arg[3]>>
       /\ ~call.arg[1] => call.ret = <<128, 128, call.arg[2], call.arg[3]>>

C12_Witness ==
    /\ call.fn = "ble_midi_message" /\ call.done
    /\ call.arg = <<FALSE, 108, 127>>
    /\ call.ret = <<128, 128, 108, 127>>

---------------------------------------------------------------------------
(* Properties of the session driver, under Spec *)

SessionComplete == Len(ops) > 0 /\ ops[Len(ops)] = "abort"

\* C4: in a session on a peripheral whose name passes the filter, which
\* advertises the MIDI service and whose MIDI characteristic has exactly
\* {NOTIFY, WRITE_WITHOUT_RESPONSE}, with no call failing, the writes issued
\* are on(21), off(21), ..., on(108), off(108) in this order, one write each
\* and all without response: 176 writes when the session is complete.
C4_FullRangeWithoutResponse ==
    ( /\ call.fn = "main"
      /\ Contains(local_name, "MIDI")
      /\ services = <<{MIDI_SERVICE_UUID}>>
      /\ midi_characteristic =
            <<Characteristic(MIDI_CHARACTERISTIC_UUID,
                             {"NOTIFY", "WRITE_WITHOUT_RESPONSE"})>>
      /\ faults = 0
      /\ result.tag \in {"Running", "Ok"} )
    => /\ IsPrefix(attempted, FullRange)
       /\ n_without = Len(attempted)
       /\ n_with = 0
       /\ pc \in {"send", "fallback"} =>
            WriteTypes(send_writes) \in {<<>>, <<"WithoutResponse">>}
       /\ SessionComplete =>
            attempted = FullRange /\ n_without = 176

C4_Witness ==
    /\ call.fn = "main"
    /\ local_name = "Example MIDI Device"
    /\ services = <<{MIDI_SERVICE_UUID}>>
    /\ midi_characteristic =
          <<Characteristic(MIDI_CHARACTERISTIC_UUID,
                           {"NOTIFY", "WRITE_WITHOUT_RESPONSE"})>>
    /\ faults = 0
    /\ SessionComplete
    /\ n_without = 176 /\ n_with = 0
    /\ attempted[1] = NoteOn(21) /\ attempted[176] = NoteOff(108)

\* C5: within a session, whatever writes fail, the events a write was
\* attempted for are a prefix of on(21), off(21), ..., on(108), off(108); the
\* first write of an event is issued only when the send of the event before
\* it has returned Ok; and an event gets at most two writes, of its own
\* payload: at most one without response, then at most one with response.
C5_StateInvariant ==
    call.fn = "main" =>
    /\ IsPrefix(attempted, FullRange)
    /\ WriteTypes(send_writes) \in
          {<<>>, <<"WithoutResponse">>, <<"WithResponse">>,
           <<"WithoutResponse", "WithResponse">>}
    /\ \A i \in 1..Len(send_writes) :
          attempted # <<>> /\ send_writes[i].data = attempted[Len(attempted)]
    /\ n_without <= Len(attempted)
    /\ n_with <= Len(attempted)

C5_NextEventAfterOk ==
    (call.fn = "main" /\ attempted' # attempted /\ attempted' # <<>>) =>
        /\ attempted = <<>> \/ send_result = Ok
        /\ Len(attempted') = Len(attempted) + 1
        /\ IsPrefix(attempted, attempted')

C5_SequentialSends == [](C5_StateInvariant) /\ [][C5_NextEventAfterOk]_vars

C5_Witness ==
    /\ call.fn = "main"
    /\ pc = "send"
    /\ Len(attempted) = 3
    /\ n_with = 1 /\ n_without = 3
    /\ WriteTypes(send_writes) = <<"WithoutResponse", "WithResponse">>
    /\ send_result = Ok

\* C6: a send that returns an error ends the session of that peripheral
\* only: main does not end on it while peripherals of the adapter, or
\* adapters, remain to be looked at.
C6_SendErrorEndsOnlyTheSession ==
    (call.fn = "main" /\ pc = "done" /\ exit_at = "write")
    => (peripherals_left = 0 /\ adapters_left = 0)

\* C7: when the adapter enumeration returns an empty list, the run ends in
\* a failure: main never returns Ok from it.
C7_NoAdaptersIsFailure ==
    [][ ( /\ call.fn = "main"
          /\ pc = "start" /\ pc' = "done"
          /\ exit_at' = ""
          /\ adapters_left' = 0 )
        => result'.tag \in {"Err", "Panic"} ]_vars

\* C14: connect, discover_services, subscribe or a write is issued to a
\* peripheral only when its local name contains "MIDI" and the services it
\* advertises are absent, empty or include the MIDI service; and a
\* peripheral whose name matches and whose advertised services are absent or
\* empty passes the evaluation: the driver goes on to connect to it (or to
\* look at its connection when it is connected already).
C14_OnlyFilteredPeripherals ==
    call.fn = "main" =>
    /\ ( \/ Has("connect") \/ Has("discover_services") \/ Has("subscribe")
         \/ n_without + n_with > 0
         \/ pc \in {"connect", "discover", "subscribe", "send", "fallback"} )
       => /\ Contains(local_name, "MIDI")
          /\ \/ services = <<>>
             \/ services[1] = {}
             \/ "03b80e5a-ede8-4b33-a751-6ce34ec4c700" \in services[1]
    /\ ( /\ ops = <<"properties", "is_connected">>
         /\ Contains(local_name, "MIDI")
         /\ (services = <<>> \/ services[1] = {}) )
       => pc \in {"connect", "check_connected"}

C14_Witness ==
    /\ call.fn = "main"
    /\ local_name = "Example MIDI Device"
    /\ services = <<{}>>
    /\ Has("connect") /\ Has("discover_services") /\ Has("subscribe")
    /\ n_without > 0

\* C15: a skip condition on a peripheral (its name or services fail the
\* filter, connect fails, or no MIDI characteristic is found on it) never
\* ends the run with an error: from it the driver goes to the next
\* peripheral (the next adapter, or the normal end, when none is left).
C15_SkipNeverEndsRun ==
    [][ ( /\ call.fn = "main"
          /\ \/ /\ pc = "evaluate"
                /\ exit_at' = ""
                /\ \/ ~Contains(local_name', "MIDI")
                   \/ /\ services' # <<>>
                      /\ services'[1] # {}
                      /\ "03b80e5a-ede8-4b33-a751-6ce34ec4c700" \notin services'[1]
             \/ pc = "connect" /\ pc' # "check_connected"
             \/ pc = "disconnect_missing" )
        => /\ result'.tag \in {"Running", "Ok"}
           /\ pc' = NextPc(peripherals_left', adapters_left') ]_vars

\* find_midi_characteristic returned None for the current peripheral.
FoundNone ==
    /\ call.fn = "main"
    /\ Has("discover_services")
    /\ exit_at # "discover_services"
    /\ midi_characteristic = <<>>

\* C16: when find_midi_characteristic returns None for a connected
\* peripheral, the driver issues one disconnect to it and nothing else: no
\* subscribe, no notification task, no write, no unsubscribe.
C16_MissingCharacteristicOnlyDisconnects ==
    FoundNone =>
    /\ is_connected
    /\ Times("disconnect") = IF pc = "disconnect_missing" THEN 0 ELSE 1
    /\ ~Has("subscribe") /\ ~Has("notifications") /\ ~Has("spawn")
    /\ ~Has("unsubscribe") /\ ~Has("abort")
    /\ listener # "running"
    /\ n_without = 0 /\ n_with = 0 /\ attempted = <<>> /\ send_writes = <<>>

C16_Witness ==
    /\ FoundNone
    /\ pc = "evaluate"
    /\ ops = <<"properties", "is_connected", "connect", "is_connected",
               "discover_services", "disconnect">>
    /\ listener = "aborted"

\* The notification task of the current peripheral was spawned.
InSession == call.fn = "main" /\ Has("spawn")

\* What was issued to the current peripheral after the task was spawned
\* (writes are not in ops).
AfterSpawn ==
    LET k == CHOOSE i \in 1..Len(ops) : ops[i] = "spawn" IN
    SubSeq(ops, k + 1, Len(ops))

\* After the last write come, in this order and once each: the drain
\* delay, unsubscribe, disconnect, the abort of the notification task. The
\* drain delay starts when all 176 events were sent and the last send
\* returned Ok, and no write follows it; the task is aborted by the abort
\* that ends this sequence only.
CompletionInOrder ==
    InSession =>
    /\ IsPrefix(AfterSpawn, <<"drain", "unsubscribe", "disconnect", "abort">>)
    /\ Has("drain") =>
          /\ attempted = FullRange
          /\ send_result = Ok
          /\ pc \notin {"send", "fallback"}
    /\ SessionComplete => Times("unsubscribe") = 1 /\ Times("disconnect") = 1
    /\ listener = "aborted" => SessionComplete

\* C17, as claimed: on the normal completion path the order is last write,
\* drain delay, unsubscribe, disconnect, cancellation of the listener, with
\* unsubscribe and disconnect issued once each; the listener is not
\* cancelled before the drain delay has elapsed and is alive (running)
\* during all of Streaming.
C17_CompletionOrderAndLiveListener ==
    /\ CompletionInOrder
    /\ (InSession /\ pc \in {"send", "fallback"}) => listener = "running"

\* C17, amended: the same order and counts; from the spawn to the abort
\* the listener is never cancelled, and it runs during all of Streaming
\* unless its notification stream has ended, in which case the task has
\* returned by itself.
C17_CompletionOrderListenerNotCancelled ==
    /\ CompletionInOrder
    /\ ( /\ InSession
         /\ pc \in {"send", "fallback", "drain", "unsubscribe", "disconnect"} )
       => listener \in {"running", "finished"}

C17_Witness ==
    /\ InSession
    /\ SessionComplete
    /\ AfterSpawn = <<"drain", "unsubscribe", "disconnect", "abort">>
    /\ attempted = FullRange
    /\ listener = "aborted"

\* C18: sessions do not overlap. While the driver is between two sessions
\* or in the steps of a peripheral that come before its notification task
\* is spawned, no notification task is alive; and when the next peripheral
\* (or adapter) is taken up, a peripheral that was subscribed to has been
\* disconnected and its notification task cancelled.
C18_SessionsNeverOverlap ==
    call.fn = "main" =>
    /\ pc \in {"scan", "evaluate", "connect", "check_connected", "discover",
                "disconnect_missing", "subscribe", "notifications"}
       => listener # "running"
    /\ (pc \in {"scan", "evaluate"} /\ Has("subscribe"))
       => /\ SessionComplete
          /\ Times("subscribe") = 1 /\ Times("disconnect") = 1
          /\ listener \in {"aborted", "finished"}

C18_Witness ==
    /\ call.fn = "main"
    /\ pc = "evaluate"
    /\ peripherals_left = 1
    /\ Has("subscribe")
    /\ SessionComplete
    /\ listener = "aborted"

\* C19 (under SpecFair): the notification task does not hold up the send
\* loop. With main taking its steps whenever it has one, a session that is
\* sending reaches its disconnect, or main ends on an error, whatever the
\* notification task does, also when notifications keep arriving for ever.
C19_StreamingReachesDisconnect ==
    (InSession /\ pc \in {"send", "fallback"})
        ~> (Has("disconnect") \/ (pc = "done" /\ result.tag = "Err"))

C19_Witness ==
    /\ InSession
    /\ pc = "disconnect"
    /\ attempted = FullRange
    /\ listener = "running"
    /\ count = MaxNotifications

\* While write_with_fallback is running, or once a write was issued in the
\* session: the peripheral was last observed connected, discover_services,
\* subscribe and notifications were issued and succeeded, unsubscribe was
\* not issued yet at a write position, and the characteristic written to
\* has the MIDI UUID, NOTIFY and a write flag.
C20_StateInvariant ==
    call.fn = "main" =>
    /\ (pc \in {"send", "fallback"} \/ n_without + n_with > 0) =>
          /\ is_connected
          /\ Times("discover_services") = 1
          /\ Times("subscribe") = 1
          /\ Has("notifications")
          /\ exit_at \notin {"discover_services", "subscribe", "notifications"}
          /\ Len(midi_characteristic) = 1
          /\ Qualifies(midi_characteristic[1])
    /\ pc \in {"send", "fallback"} => ~Has("drain") /\ ~Has("unsubscribe")
    /\ \A i \in 1..Len(send_writes) : send_writes[i].data # <<>>
    /\ send_result.err.kind # "NotSupported"
    /\ result.err.kind # "NotSupported"

\* A step that issues a write is taken at a write position, with
\* unsubscribe and disconnect not issued, and leaves the call log as it is.
C20_WriteStep ==
    ( /\ call.fn = "main"
      /\ n_without' + n_with' > n_without + n_with )
    => /\ pc \in {"send", "fallback"}
       /\ is_connected
       /\ Has("subscribe") /\ ~Has("unsubscribe") /\ ~Has("disconnect")
       /\ ops' = ops
       /\ Qualifies(midi_characteristic[1])

\* C20: every write the driver issues goes to a peripheral observed
\* connected, after discover_services and subscribe succeeded and before
\* unsubscribe is issued, on a characteristic with the MIDI UUID, NOTIFY and
\* at least one write flag; no write_with_fallback call of the driver
\* returns NotSupported.
C20_WritesOnlyInsideSession == [](C20_StateInvariant) /\ [][C20_WriteStep]_vars

C20_Witness ==
    /\ call.fn = "main"
    /\ pc = "drain"
    /\ is_connected
    /\ midi_characteristic[1].properties = {"NOTIFY", "WRITE"}
    /\ n_with = 176 /\ n_without = 0
    /\ send_result = Ok

---------------------------------------------------------------------------
(* Properties of find_midi_characteristic, under SpecFind *)

FindReturned == call.fn = "find_midi_characteristic" /\ call.done

\* C8: what find_midi_characteristic returns is an element of the list, has
\* the MIDI characteristic UUID, NOTIFY and at least one of WRITE and
\* WRITE_WITHOUT_RESPONSE; it returns None when no element has the MIDI UUID
\* and when the elements that have it all lack NOTIFY.
C8_OnlyQualifiedReturned ==
    FindReturned =>
    LET chars == call.arg
        midi == { i \in 1..Len(chars) :
                    chars[i].uuid = "7772e5db-3868-4112-a1a9-f2669d106bf3" }
    IN  /\ call.ret # <<>> =>
            /\ Len(call.ret) = 1
            /\ \E i \in 1..Len(chars) : chars[i] = call.ret[1]
            /\ Qualifies(call.ret[1])
        /\ midi = {} => call.ret = <<>>
        /\ (\A i \in midi : "NOTIFY" \notin chars[i].properties) => call.ret = <<>>

C8_Witness ==
    /\ FindReturned
    /\ Len(call.arg) = 2
    /\ call.arg[1].uuid # "7772e5db-3868-4112-a1a9-f2669d106bf3"
    /\ call.ret = <<call.arg[2]>>
    /\ call.ret[1].properties = {"NOTIFY", "WRITE"}

\* C9: when some element of the list has the MIDI UUID, NOTIFY and a write
\* flag, find_midi_characteristic returns the first such element of the list.
C9_FirstQualifiedReturned ==
    FindReturned =>
    LET chars == call.arg
        good == { i \in 1..Len(chars) : Qualifies(chars[i]) }
    IN  good # {} =>
            call.ret = <<chars[CHOOSE i \in good : \A j \in good : i <= j]>>

---------------------------------------------------------------------------
(* Properties of augment_write_error, under SpecAugment *)

\* C10: for an error whose text contains "not authorized" in any letter
\* case, augment_write_error returns the guidance-wrapped error, whose
\* message contains the message of the original error.
C10_AnyCaseIsWrapped ==
    ( /\ call.fn = "augment_write_error" /\ call.done
      /\ SaysNotAuthorized(call.arg) )
    => IsGuidanceAround(call.ret, call.arg.text)

=============================================================================
